---------------------------- MODULE Spec2Model ----------------------------
(***************************************************************************)
(* A model of packages/mimic-core/src/utils.ts: detectGit / readGitMeta,   *)
(* ensureDirectory, raceSuccess, readAnyFile and readRecursively.          *)
(*                                                                         *)
(* Strings are sequences of one-character strings, a path is the sequence  *)
(* of its components ("/" is the empty sequence).  Every asynchronous      *)
(* callback of the source is one action.                                   *)
(***************************************************************************)
EXTENDS Integers, Sequences, FiniteSets, TLC

(***************************************************************************)
(* Bounds of the model.                                                    *)
(***************************************************************************)
\* deepest start directory of detectGit, counted in components below "/"
MaxDepth == 12
\* most directories on the start path that hold a .git entry
MaxMarkers == 2
\* most attempts handed to raceSuccess
MaxAttempts == 3
\* most nodes of the tree readRecursively walks
MaxNodes == 3
\* deepest directory ensureDirectory is called with, in components below "/"
MaxLevels == 2
\* most ensureDirectory calls in flight at once
MaxCalls == 2

\* utils.ts:37, the iteration at which detectGit gives up
MaxIter == 10
\* utils.ts:16, the length of the prefix "ref: refs/heads/" cut from HEAD
HeadPrefixLen == 16

VARIABLES
  \* ---- the filesystem detectGit walks
  startDir,       \* the directory detectGit is called with
  marker,         \* depth of a directory of the start path -> what its .git is
  branchName,     \* the branch the good repositories are on
  \* ---- detectGit / readGitMeta
  gitPc,          \* "call", "stat", "readHead", "readRef", "done"
  directory,      \* detectGit's parameter `directory` of the current iteration
  iter,           \* detectGit's parameter `iter`
  dir,            \* detectGit's `dir`: the directory whose .git is being probed
  branch,         \* readGitMeta's `branch`
  gitResult,      \* what the callback was called with
  callbackCount,  \* how many times the callback was called
  probes,         \* the directories probed with fs.stat, in order
  reads           \* the files read with fs.readFile, in order

VARIABLES
  \* ---- raceSuccess
  plan,           \* attempt -> TRUE when the attempt fulfils, FALSE when it rejects
  preSettled,     \* the attempts already settled when raceSuccess is called
  attempts,       \* the promises handed to raceSuccess
  settleOrder,    \* the attempts in the order in which they settled
  inverted,       \* the promises p.then(...) of utils.ts:76, one per attempt
  allValues,      \* Promise.all's array of results, Hole where none yet
  remaining,      \* Promise.all's count of elements not yet fulfilled
  allPromise,     \* the promise Promise.all returned
  raceResult,     \* the promise raceSuccess returned
  microtasks      \* the promise job queue, first in first out

VARIABLES
  \* ---- the tree readRecursively walks: nodes 1..n, node 1 the given path
  parent,         \* node -> the directory holding it (0 for node 1)
  kind,           \* node -> "file", "dir", "other" (device, socket) or
                  \*         "dangling" (a symlink whose target is missing)
  base,           \* node -> its name, the last component of its path
  ext,            \* readRecursively's parameter `ext`
  \* ---- readRecursively, one call per node
  fsPath,         \* node -> the parameter `fsPath` of its call
  treePc,         \* node -> "idle", "stat", "read", "readdir", "join", "done"
  promise,        \* node -> the promise its call returned
  failures        \* the failures of filesystem operations, in order

VARIABLES
  \* ---- readRecursively run a second time
  run,            \* 1 during the first run, 2 during the second
  previous        \* the promise of the first run once the second has begun

VARIABLES
  \* ---- readAnyFile
  filePaths,      \* readAnyFile's parameter `filePaths`
  present,        \* the files that exist
  fileReads       \* the promises readFileAsync returned, one per path

VARIABLES
  \* ---- the filesystem ensureDirectory works on
  exists,         \* the paths that exist
  regular,        \* those of them that are regular files, not directories
  \* ---- ensureDirectory, one entry per call of the user
  targets,        \* call -> the `dirPath` the user called with
  ensurePc,       \* call -> "stat", "mkdir" or "done"
  dirPath,        \* call -> the `dirPath` of the frame whose operation is out
  ensureErr,      \* call -> what the user's callback got ("" for null)
  mkdirs,         \* call -> the paths it issued fs.mkdir for, in order
  statOk,         \* call -> the paths whose fs.stat succeeded
  faulted         \* TRUE once an operation failed for an outside reason

gitVars == <<startDir, marker, branchName, gitPc, directory, iter, dir,
             branch, gitResult, callbackCount, probes, reads>>

raceVars == <<plan, preSettled, attempts, settleOrder, inverted, allValues,
              remaining, allPromise, raceResult, microtasks>>

treeVars == <<parent, kind, base, ext, fsPath, treePc, promise, failures>>

rerunVars == <<run, previous>>

anyVars == <<filePaths, present, fileReads>>

ensureVars == <<exists, regular, targets, ensurePc, dirPath, ensureErr,
                mkdirs, statOk, faulted>>

vars == <<gitVars, raceVars, treeVars, rerunVars, anyVars, ensureVars>>

(***************************************************************************)
(* Strings and paths.                                                      *)
(***************************************************************************)
Min(a, b) == IF a < b THEN a ELSE b
Max(a, b) == IF a > b THEN a ELSE b

\* String.prototype.slice(from, to): negative indices count from the end
Slice(s, from, to) ==
  LET n == Len(s)
      a == IF from < 0 THEN Max(n + from, 0) ELSE Min(from, n)
      b == IF to < 0 THEN Max(n + to, 0) ELSE Min(to, n)
  IN  IF a >= b THEN <<>> ELSE SubSeq(s, a + 1, b)

\* the sequences without repetition over the subsets of S
RECURSIVE Orders(_)
Orders(S) ==
  {<<>>} \cup UNION { { <<x>> \o o : o \in Orders(S \ {x}) } : x \in S }

\* the members of S in increasing order
RECURSIVE Sorted(_)
Sorted(S) ==
  IF S = {} THEN <<>>
  ELSE LET m == CHOOSE x \in S : \A y \in S : x <= y
       IN  <<m>> \o Sorted(S \ {m})

Range(f) == { f[x] : x \in DOMAIN f }

\* the path "/"
RootDir == <<>>

\* path.dirname of an absolute normalized path; dirname("/") is "/"
DirnameMutant(p) == p
Dirname(p) == IF p = RootDir THEN RootDir ELSE SubSeq(p, 1, Len(p) - 1)

\* the directory of the start path that lies n components below "/"
ChainDir(n) == [i \in 1..n |-> "d"]

\* "ref: refs/heads/"
HeadPrefix ==
  <<"r", "e", "f", ":", " ", "r", "e", "f", "s", "/", "h", "e", "a", "d", "s", "/">>

Branches == { <<"m">>, <<"d", "e", "v">> }

\* the content of a ref file
RefContent == <<"a", "b", "c", "\n">>

(***************************************************************************)
(* The filesystem under detectGit: what .git is in each directory of the   *)
(* start path.                                                             *)
(*   "none"    no .git: stat fails with ENOENT                             *)
(*   "denied"  stat of .git fails with EACCES                              *)
(*   "good"    .git with HEAD and the ref file of HEAD's branch            *)
(*   "nohead"  .git without a readable HEAD                                *)
(*   "noref"   .git with HEAD but without the ref file                     *)
(***************************************************************************)
MarkerKinds == {"none", "denied", "good", "nohead", "noref"}

MarkerOf(d) == IF Len(d) \in DOMAIN marker THEN marker[Len(d)] ELSE "none"

\* fs.stat(`${dir}/.git`)
StatGit(d) ==
  CASE MarkerOf(d) = "none"   -> [ok |-> FALSE, err |-> "ENOENT"]
    [] MarkerOf(d) = "denied" -> [ok |-> FALSE, err |-> "EACCES"]
    [] OTHER                  -> [ok |-> TRUE, err |-> "" ]

\* fs.readFile(path.join(root, ".git/HEAD"))
ReadHead(root) ==
  IF MarkerOf(root) \in {"good", "noref"}
  THEN [ok |-> TRUE, data |-> HeadPrefix \o branchName \o <<"\n">>, err |-> ""]
  ELSE [ok |-> FALSE, data |-> <<>>, err |-> "ENOENT HEAD"]

\* fs.readFile(path.join(root, `.git/refs/heads/${branch}`))
ReadRef(root, b) ==
  IF MarkerOf(root) = "good" /\ b = branchName
  THEN [ok |-> TRUE, data |-> RefContent, err |-> ""]
  ELSE [ok |-> FALSE, data |-> <<>>, err |-> "ENOENT ref"]

NoGit == [root |-> <<>>, head |-> <<>>, branch |-> <<>>]
NoResult == [err |-> "", git |-> NoGit]
NotFound == "no git root detected"

(***************************************************************************)
(* detectGit and readGitMeta.                                              *)
(***************************************************************************)
\* callback(err, git)
CallbackMutant(err, git) ==
  /\ gitResult' = [err |-> IF err = "" THEN "" ELSE "no git root detected",
                   git |-> git]
  /\ callbackCount' = callbackCount + 1
  /\ gitPc' = "done"
Callback(err, git) ==
  /\ gitResult' = [err |-> err, git |-> git]
  /\ callbackCount' = callbackCount + 1
  /\ gitPc' = "done"

\* utils.ts:37, the test that stops the walk
StopWalkMutant(d, it) == d = RootDir \/ it = MaxIter + 1
StopWalkNoRoot(d, it) == it = MaxIter
StopWalk(d, it) == d = RootDir \/ it = MaxIter

\* the body of detectGit(d, callback, it) up to the fs.stat it issues
DetectGit(d, it) ==
  IF StopWalk(d, it)
  THEN /\ Callback(NotFound, NoGit)
       /\ UNCHANGED <<directory, iter, dir, probes>>
  ELSE /\ directory' = d
       /\ iter' = it
       /\ dir' = Dirname(d)
       /\ probes' = Append(probes, Dirname(d))
       /\ gitPc' = "stat"
       /\ UNCHANGED <<gitResult, callbackCount>>

\* the caller's detectGit(startDir, callback)
CallDetectGit ==
  /\ gitPc = "call"
  /\ DetectGit(startDir, 0)
  /\ UNCHANGED <<startDir, marker, branchName, branch, reads>>
  /\ UNCHANGED <<raceVars, treeVars, rerunVars, anyVars, ensureVars>>

\* the callback of fs.stat(`${dir}/.git`)
StatDone ==
  /\ gitPc = "stat"
  /\ IF ~StatGit(dir).ok
     THEN /\ DetectGit(dir, iter + 1)
          /\ UNCHANGED reads
     ELSE \* readGitMeta(dir, callback) issues the read of HEAD
          /\ gitPc' = "readHead"
          /\ reads' = Append(reads, <<dir, "HEAD">>)
          /\ UNCHANGED <<directory, iter, dir, probes, gitResult, callbackCount>>
  /\ UNCHANGED <<startDir, marker, branchName, branch>>
  /\ UNCHANGED <<raceVars, treeVars, rerunVars, anyVars, ensureVars>>

\* utils.ts:16
BranchOfMutant(branchData) == Slice(branchData, HeadPrefixLen, Len(branchData))
BranchOf(branchData) == Slice(branchData, HeadPrefixLen, -1)

\* the callback of the read of .git/HEAD
ReadHeadDone ==
  /\ gitPc = "readHead"
  /\ LET r == ReadHead(dir)
     IN  IF ~r.ok
         THEN /\ Callback(r.err, NoGit)
              /\ UNCHANGED <<branch, reads>>
         ELSE /\ branch' = BranchOf(r.data)
              /\ reads' = Append(reads, <<dir, "ref", BranchOf(r.data)>>)
              /\ gitPc' = "readRef"
              /\ UNCHANGED <<gitResult, callbackCount>>
  /\ UNCHANGED <<startDir, marker, branchName, directory, iter, dir, probes>>
  /\ UNCHANGED <<raceVars, treeVars, rerunVars, anyVars, ensureVars>>

\* the callback of the read of .git/refs/heads/<branch>
ReadRefDone ==
  /\ gitPc = "readRef"
  /\ LET r == ReadRef(dir, branch)
     IN  IF ~r.ok
         THEN Callback(r.err, NoGit)
         ELSE Callback("", [root |-> dir, head |-> r.data, branch |-> branch])
  /\ UNCHANGED <<startDir, marker, branchName, directory, iter, dir, branch,
                 probes, reads>>
  /\ UNCHANGED <<raceVars, treeVars, rerunVars, anyVars, ensureVars>>

(***************************************************************************)
(* ensureDirectory.                                                        *)
(*                                                                         *)
(* A call of the user recurses towards "/" while fs.stat fails, and on the *)
(* way back each frame makes its directory.  At any time one operation of  *)
(* a call is out: the stat or the mkdir of the frame of dirPath[c].        *)
(***************************************************************************)
\* the names of directory entries, and the paths made of them: "b" is
\* the last component of a path only
EnsureNames == {"a", "b"}
EnsurePaths ==
  { q \in UNION { [1..k -> EnsureNames] : k \in 0..MaxLevels } :
      \A j \in 1..(Len(q) - 1) : q[j] = "a" }

\* a path and the directories above it
Prefixes(p) == { SubSeq(p, 1, k) : k \in 0..Len(p) }

\* fs.stat(dirPath); fault: it fails although the path is there
EnsureStat(path, fault) == path \in exists /\ ~fault

\* fs.mkdir(dirPath): the error code, "" for none; fault: it fails for a
\* reason of its own
MkdirOf(path, fault) ==
  CASE path \in exists             -> "EEXIST"
    [] Dirname(path) \notin exists -> "ENOENT"
    [] Dirname(path) \in regular   -> "ENOTDIR"
    [] fault                       -> "EACCES"
    [] OTHER                       -> ""

\* utils.ts:60-65: the dirPath of the frame that called
\* ensureDirectory(parentDir, ...) for parentDir = path
FrameAboveMutant(target, path) == target
FrameAbove(target, path) == SubSeq(target, 1, Len(path) + 1)

\* callback(null) of the frame of path: the user's callback when the frame
\* is the user's call, else the frame above issues its mkdir (utils.ts:65)
Ensured(c, path) ==
  IF path = targets[c]
  THEN /\ ensurePc' = [ensurePc EXCEPT ![c] = "done"]
       /\ ensureErr' = [ensureErr EXCEPT ![c] = ""]
       /\ UNCHANGED <<dirPath, mkdirs>>
  ELSE /\ ensurePc' = [ensurePc EXCEPT ![c] = "mkdir"]
       /\ dirPath' = [dirPath EXCEPT ![c] = FrameAbove(targets[c], path)]
       /\ mkdirs' = [mkdirs EXCEPT ![c] = Append(@, FrameAbove(targets[c], path))]
       /\ UNCHANGED ensureErr

\* the callback of fs.stat(dirPath), utils.ts:58-68; the stat of "/" does
\* not fail
EnsureStatDone(c, fault) ==
  /\ ensurePc[c] = "stat"
  /\ fault => dirPath[c] \in exists \ {RootDir}
  /\ IF ~EnsureStat(dirPath[c], fault)
     THEN /\ dirPath' = [dirPath EXCEPT ![c] = Dirname(dirPath[c])]
          /\ UNCHANGED <<ensurePc, ensureErr, mkdirs, statOk>>
     ELSE /\ statOk' = [statOk EXCEPT ![c] = @ \cup {dirPath[c]}]
          /\ Ensured(c, dirPath[c])
  /\ faulted' = (faulted \/ fault)
  /\ UNCHANGED <<exists, regular, targets>>
  /\ UNCHANGED <<gitVars, raceVars, treeVars, rerunVars, anyVars>>

\* the callback of fs.mkdir(dirPath), utils.ts:62-65: an error goes up
\* through every frame to the user's callback
EnsureMkdirDone(c, fault) ==
  /\ ensurePc[c] = "mkdir"
  /\ fault => MkdirOf(dirPath[c], FALSE) = ""
  /\ IF MkdirOf(dirPath[c], fault) # ""
     THEN /\ ensurePc' = [ensurePc EXCEPT ![c] = "done"]
          /\ ensureErr' = [ensureErr EXCEPT ![c] = MkdirOf(dirPath[c], fault)]
          /\ UNCHANGED <<exists, dirPath, mkdirs>>
     ELSE /\ exists' = exists \cup {dirPath[c]}
          /\ Ensured(c, dirPath[c])
  /\ faulted' = (faulted \/ fault)
  /\ UNCHANGED <<regular, targets, statOk>>
  /\ UNCHANGED <<gitVars, raceVars, treeVars, rerunVars, anyVars>>

(***************************************************************************)
(* raceSuccess.                                                            *)
(*                                                                         *)
(* A promise is a record [state, value].  Attempt i fulfils with OkVal(i)  *)
(* or rejects with ErrVal(i).  A promise job is a record                   *)
(* [type, i, state, value]; the queue runs first in, first out.            *)
(***************************************************************************)
Pending == [state |-> "pending", value |-> <<>>]
Fulfilled(v) == [state |-> "fulfilled", value |-> v]
Rejected(v) == [state |-> "rejected", value |-> v]

OkVal(i) == <<"val", i>>
ErrVal(i) == <<"err", i>>

\* the empty slot of Promise.all's array of results
Hole == <<"hole">>

Job(type, i, state, value) ==
  [type |-> type, i |-> i, state |-> state, value |-> value]

\* the promise attempt i settles to
SettledAttempt(i) == IF plan[i] THEN Fulfilled(OkVal(i)) ELSE Rejected(ErrVal(i))

\* utils.ts:77-78: the promise a handler of p.then returns for a settled p
SwapMutant(p) ==
  IF p.state = "fulfilled" THEN Fulfilled(p.value) ELSE Rejected(p.value)
Swap(p) ==
  IF p.state = "fulfilled" THEN Rejected(p.value) ELSE Fulfilled(p.value)

\* utils.ts:81-82: the promise a handler of Promise.all(...).then returns
SwapBack(p) ==
  IF p.state = "fulfilled" THEN Rejected(p.value) ELSE Fulfilled(p.value)

\* Promise.all(promises) when it returns: of no promise at all it is
\* fulfilled with the empty array, else it waits for its elements
PromiseAllOfMutant(n) == Pending
PromiseAllOf(n) == IF n = 0 THEN Fulfilled(<<>>) ELSE Pending

\* an attempt settles; the reaction p.then registered is queued
Settle(i) ==
  /\ attempts[i].state = "pending"
  /\ attempts' = [attempts EXCEPT ![i] = SettledAttempt(i)]
  /\ settleOrder' = Append(settleOrder, i)
  /\ microtasks' = Append(microtasks, Job("swap", i, "", <<>>))
  /\ UNCHANGED <<plan, preSettled, inverted, allValues, remaining, allPromise,
                 raceResult>>
  /\ UNCHANGED <<gitVars, treeVars, rerunVars, anyVars, ensureVars>>

\* the reaction of attempt i: its handler returns a settled promise, which
\* the promise of p.then(...) must adopt (a job of its own)
RunSwap ==
  /\ microtasks # <<>>
  /\ Head(microtasks).type = "swap"
  /\ LET i == Head(microtasks).i
         r == Swap(attempts[i])
     IN  microtasks' = Append(Tail(microtasks), Job("thenable", i, r.state, r.value))
  /\ UNCHANGED <<plan, preSettled, attempts, settleOrder, inverted, allValues,
                 remaining, allPromise, raceResult>>
  /\ UNCHANGED <<gitVars, treeVars, rerunVars, anyVars, ensureVars>>

\* the job that calls then on the returned promise: it is settled, so its
\* reaction is queued at once.  i = 0 names the promise raceSuccess returns
RunThenable ==
  /\ microtasks # <<>>
  /\ Head(microtasks).type = "thenable"
  /\ LET j == Head(microtasks)
     IN  microtasks' = Append(Tail(microtasks), Job("adopt", j.i, j.state, j.value))
  /\ UNCHANGED <<plan, preSettled, attempts, settleOrder, inverted, allValues,
                 remaining, allPromise, raceResult>>
  /\ UNCHANGED <<gitVars, treeVars, rerunVars, anyVars, ensureVars>>

\* the reaction that settles the adopting promise; settling inverted[i]
\* queues the reaction Promise.all registered on it
RunAdopt ==
  /\ microtasks # <<>>
  /\ Head(microtasks).type = "adopt"
  /\ LET j == Head(microtasks)
         p == [state |-> j.state, value |-> j.value]
     IN  IF j.i = 0
         THEN /\ raceResult' = IF raceResult.state = "pending" THEN p ELSE raceResult
              /\ microtasks' = Tail(microtasks)
              /\ UNCHANGED inverted
         ELSE /\ inverted' = [inverted EXCEPT ![j.i] = p]
              /\ microtasks' = Append(Tail(microtasks), Job("element", j.i, "", <<>>))
              /\ UNCHANGED raceResult
  /\ UNCHANGED <<plan, preSettled, attempts, settleOrder, allValues, remaining,
                 allPromise>>
  /\ UNCHANGED <<gitVars, treeVars, rerunVars, anyVars, ensureVars>>

\* Promise.all stores the result of element i at index i of its array
SetElementMutant(values, i, v) ==
  LET k == CHOOSE h \in DOMAIN values :
             values[h] = Hole /\ \A g \in DOMAIN values : values[g] = Hole => h <= g
  IN  [values EXCEPT ![k] = v]
SetElement(values, i, v) == [values EXCEPT ![i] = v]

\* Promise.all fulfils when the element just fulfilled was the last one
LastElementMutant(rem) == TRUE
LastElement(rem) == rem = 1

\* a settled promise stays as it is: Promise.all rejects at the first
\* rejection of an element and ignores what follows
AllSettleMutant(p) == p
AllSettleWaits(p) ==
  IF /\ allPromise.state = "pending"
     /\ (p.state = "fulfilled"
           \/ \A i \in DOMAIN inverted : inverted[i].state # "pending")
  THEN p ELSE allPromise
AllSettle(p) == IF allPromise.state = "pending" THEN p ELSE allPromise

\* Promise.all's reaction to element i
RunElement ==
  /\ microtasks # <<>>
  /\ Head(microtasks).type = "element"
  /\ LET i == Head(microtasks).i
         v == SetElement(allValues, i, inverted[i].value)
     IN  IF inverted[i].state = "fulfilled"
         THEN /\ allValues' = v
              /\ remaining' = remaining - 1
              /\ allPromise' = IF LastElement(remaining) THEN AllSettle(Fulfilled(v))
                               ELSE allPromise
         ELSE /\ allPromise' = AllSettle(Rejected(inverted[i].value))
              /\ UNCHANGED <<allValues, remaining>>
  /\ microtasks' = IF allPromise.state = "pending" /\ allPromise'.state # "pending"
                   THEN Append(Tail(microtasks), Job("outer", 0, "", <<>>))
                   ELSE Tail(microtasks)
  /\ UNCHANGED <<plan, preSettled, attempts, settleOrder, inverted, raceResult>>
  /\ UNCHANGED <<gitVars, treeVars, rerunVars, anyVars, ensureVars>>

\* the reaction of utils.ts:80-83 to the settled Promise.all
RunOuter ==
  /\ microtasks # <<>>
  /\ Head(microtasks).type = "outer"
  /\ LET r == SwapBack(allPromise)
     IN  microtasks' = Append(Tail(microtasks), Job("thenable", 0, r.state, r.value))
  /\ UNCHANGED <<plan, preSettled, attempts, settleOrder, inverted, allValues,
                 remaining, allPromise, raceResult>>
  /\ UNCHANGED <<gitVars, treeVars, rerunVars, anyVars, ensureVars>>

(***************************************************************************)
(* readAnyFile.                                                            *)
(*                                                                         *)
(* Attempt i of raceSuccess is readFileAsync(filePaths[i]).then(...).  A   *)
(* file path is a string.  The callback of fs.readFile runs once the       *)
(* promise job queue is empty.                                             *)
(***************************************************************************)
\* the paths readAnyFile may be given
AnyFiles == {"p", "q"}

\* the content of file f, and the error of a failed read of f
FileData(f) == <<"data", f>>
ReadError(f) == <<"err", f>>

\* utils.ts:108, the value an attempt fulfils with
FileResultMutant(i, data) == [file |-> filePaths[1], data |-> data]
FileResult(i, data) == [file |-> filePaths[i], data |-> data]

\* utils.ts:108-109, the promise a handler of readFileAsync(fp).then returns
MapRead(i, p) ==
  IF p.state = "fulfilled" THEN Fulfilled(FileResult(i, p.value))
  ELSE Rejected(p.value)

\* the callback of fs.readFile, utils.ts:92-97: the promise of
\* readFileAsync settles and the reaction of its .then is queued; the read
\* of a file that is there may fail as well
ReadFileDone(i, ok) ==
  /\ microtasks = <<>>
  /\ fileReads[i].state = "pending"
  /\ ok => filePaths[i] \in present
  /\ fileReads' = [fileReads EXCEPT ![i] =
                     IF ok THEN Fulfilled(FileData(filePaths[i]))
                     ELSE Rejected(ReadError(filePaths[i]))]
  /\ microtasks' = Append(microtasks, Job("map", i, "", <<>>))
  /\ UNCHANGED <<filePaths, present>>
  /\ UNCHANGED <<plan, preSettled, attempts, settleOrder, inverted, allValues,
                 remaining, allPromise, raceResult>>
  /\ UNCHANGED <<gitVars, treeVars, rerunVars, ensureVars>>

\* the reaction of readFileAsync(fp).then: its handler returns a settled
\* promise, which the attempt must adopt
RunMap ==
  /\ microtasks # <<>>
  /\ Head(microtasks).type = "map"
  /\ LET i == Head(microtasks).i
         r == MapRead(i, fileReads[i])
     IN  microtasks' = Append(Tail(microtasks), Job("mapThenable", i, r.state, r.value))
  /\ UNCHANGED <<plan, preSettled, attempts, settleOrder, inverted, allValues,
                 remaining, allPromise, raceResult>>
  /\ UNCHANGED <<gitVars, treeVars, rerunVars, anyVars, ensureVars>>

\* the job that calls then on the promise the handler returned
RunMapThenable ==
  /\ microtasks # <<>>
  /\ Head(microtasks).type = "mapThenable"
  /\ LET j == Head(microtasks)
     IN  microtasks' = Append(Tail(microtasks), Job("mapAdopt", j.i, j.state, j.value))
  /\ UNCHANGED <<plan, preSettled, attempts, settleOrder, inverted, allValues,
                 remaining, allPromise, raceResult>>
  /\ UNCHANGED <<gitVars, treeVars, rerunVars, anyVars, ensureVars>>

\* the reaction that settles the attempt; the reaction raceSuccess
\* registered on it with p.then is queued
RunMapAdopt ==
  /\ microtasks # <<>>
  /\ Head(microtasks).type = "mapAdopt"
  /\ LET j == Head(microtasks)
     IN  /\ attempts' = [attempts EXCEPT ![j.i] = [state |-> j.state, value |-> j.value]]
         /\ settleOrder' = Append(settleOrder, j.i)
         /\ microtasks' = Append(Tail(microtasks), Job("swap", j.i, "", <<>>))
  /\ UNCHANGED <<plan, preSettled, inverted, allValues, remaining, allPromise,
                 raceResult>>
  /\ UNCHANGED <<gitVars, treeVars, rerunVars, anyVars, ensureVars>>

(***************************************************************************)
(* readRecursively.                                                        *)
(*                                                                         *)
(* A path given to readRecursively is a record [abs, parts]: absolute or   *)
(* relative to the working directory.  A mapping {path: content} is a      *)
(* function from absolute paths to contents.  A promise of a call is a     *)
(* record [state, map, err].  The callback of a filesystem operation runs  *)
(* together with the promise jobs it causes: the job queue is drained      *)
(* before the next callback of the filesystem runs.                        *)
(***************************************************************************)
Nodes == DOMAIN parent

\* process.cwd()
Cwd == << <<"w">> >>

AbsolutePath(parts) == [abs |-> TRUE, parts |-> parts]
RelativePath(parts) == [abs |-> FALSE, parts |-> parts]
NoPath == RelativePath(<<>>)

\* path.resolve(fsPath)
ResolveMutant(p) ==
  IF p.abs THEN p.parts
  ELSE IF run = 1 THEN Cwd \o p.parts ELSE << <<"v">> >> \o p.parts
Resolve(p) == IF p.abs THEN p.parts ELSE Cwd \o p.parts

\* path.join(abs, f)
Join(abs, f) == AbsolutePath(Append(abs, f))

\* where node i is in the filesystem
RECURSIVE Location(_)
Location(i) ==
  IF parent[i] = 0 THEN Append(Cwd, base[i])
  ELSE Append(Location(parent[i]), base[i])

\* the entries of directory i, in the order fs.readdir lists them
Children(i) == { c \in Nodes : parent[c] = i }

\* the content of file i
Content(i) == <<"data", i>>

\* the index of the last "." of a name, 0 when it has none
LastDot(name) ==
  LET dots == { k \in 1..Len(name) : name[k] = "." }
  IN  IF dots = {} THEN 0 ELSE CHOOSE k \in dots : \A j \in dots : j <= k

\* path.extname(abs): from the last "." of the last component to its end;
\* empty without a "." and when the only "." is the first character
Extname(abs) ==
  LET name == abs[Len(abs)]
  IN  IF LastDot(name) <= 1 THEN <<>> ELSE SubSeq(name, LastDot(name), Len(name))

\* String.prototype.includes
Includes(str, sub) ==
  \E k \in 0..(Len(str) - Len(sub)) : SubSeq(str, k + 1, k + Len(sub)) = sub

\* String.prototype.endsWith
EndsWith(str, sub) ==
  /\ Len(sub) <= Len(str)
  /\ SubSeq(str, Len(str) - Len(sub) + 1, Len(str)) = sub

\* utils.ts:163, the test of the extension
ExtMatches(abs, e) == Includes(Extname(abs), e)

EmptyMap == <<>>
NoErr == [op |-> "", node |-> 0, code |-> ""]
TreePending == [state |-> "pending", map |-> EmptyMap, err |-> NoErr]
Resolved(m) == [state |-> "fulfilled", map |-> m, err |-> NoErr]
Failed(e) == [state |-> "rejected", map |-> EmptyMap, err |-> e]

\* Object.assign of two mappings: the later one wins a shared key
Assign2(a, b) ==
  [k \in (DOMAIN a) \cup (DOMAIN b) |-> IF k \in DOMAIN b THEN b[k] ELSE a[k]]

\* utils.ts:174, Object.assign({}, ...values)
RECURSIVE AssignAllMutant(_)
AssignAllMutant(values) ==
  IF values = <<>> THEN EmptyMap ELSE values[Len(values)]
RECURSIVE AssignAll(_)
AssignAll(values) ==
  IF values = <<>> THEN EmptyMap
  ELSE Assign2(AssignAll(SubSeq(values, 1, Len(values) - 1)), values[Len(values)])

\* fs.stat(abs) of node i; fault: the operation fails with an I/O error.
\* stat follows symbolic links, so it fails on one whose target is missing
StatOf(i, fault) ==
  CASE fault                -> [ok |-> FALSE, err |-> [op |-> "stat", node |-> i, code |-> "EIO"]]
    [] kind[i] = "dangling" -> [ok |-> FALSE, err |-> [op |-> "stat", node |-> i, code |-> "ENOENT"]]
    [] OTHER                -> [ok |-> TRUE, err |-> NoErr]

\* utils.ts:161, what a failed stat makes of the call's promise
OnStatErrorMutant(err) == Resolved(EmptyMap)
OnStatError(err) == Failed(err)

\* utils.ts:179, what the call's promise becomes for a path that is
\* neither a file to read nor a directory
OnOtherMutant(i) == Failed([op |-> "type", node |-> i, code |-> "EINVAL"])
OnOther(i) == Resolved(EmptyMap)

\* utils.ts:164, the mapping of a file that was read
FileMap(abs, cont) == [k \in {abs} |-> cont]

\* The promise jobs that follow when the promise of node i settles as p:
\* the Promise.all of the directory holding it (utils.ts:173-175) rejects
\* with the first rejection among its elements, and fulfils with the merge
\* of their mappings, in the order of the entries, once all are fulfilled.
RECURSIVE SettleUp(_, _, _)
SettleUp(pr, i, p) ==
  LET pr1 == [pr EXCEPT ![i] = p]
      up == parent[i]
  IN  IF up = 0 \/ pr1[up].state # "pending" THEN pr1
      ELSE IF p.state = "rejected" THEN SettleUp(pr1, up, Failed(p.err))
      ELSE IF \A c \in Children(up) : pr1[c].state = "fulfilled"
           THEN SettleUp(pr1, up,
                  Resolved(AssignAll([k \in 1..Cardinality(Children(up)) |->
                                        pr1[Sorted(Children(up))[k]].map])))
           ELSE pr1

\* the call of node i ends: its promise settles, and whatever follows
Finish(i, p) ==
  /\ promise' = SettleUp(promise, i, p)
  /\ treePc' = [j \in Nodes |->
                  IF j = i \/ SettleUp(promise, i, p)[j].state # "pending"
                  THEN "done" ELSE treePc[j]]

\* the callback of fs.stat(abs), utils.ts:160-180
TreeStatDone(i, fault) ==
  /\ treePc[i] = "stat"
  /\ LET abs == Resolve(fsPath[i])
         r == StatOf(i, fault)
     IN  IF ~r.ok
         THEN /\ Finish(i, OnStatError(r.err))
              /\ failures' = Append(failures, r.err)
         ELSE /\ failures' = failures
              /\ IF kind[i] = "file" /\ ExtMatches(abs, ext)
                 THEN /\ treePc' = [treePc EXCEPT ![i] = "read"]
                      /\ UNCHANGED promise
                 ELSE IF kind[i] = "dir"
                 THEN /\ treePc' = [treePc EXCEPT ![i] = "readdir"]
                      /\ UNCHANGED promise
                 ELSE Finish(i, OnOther(i))
  /\ UNCHANGED <<parent, kind, base, ext, fsPath>>
  /\ UNCHANGED <<gitVars, raceVars, rerunVars, anyVars, ensureVars>>

\* the callback of fs.readFile(abs) in readFileAsync and the reactions of
\* utils.ts:164
TreeReadDone(i, fault) ==
  /\ treePc[i] = "read"
  /\ LET abs == Resolve(fsPath[i])
         e == [op |-> "read", node |-> i, code |-> "EIO"]
     IN  IF fault
         THEN /\ Finish(i, Failed(e))
              /\ failures' = Append(failures, e)
         ELSE /\ Finish(i, Resolved(FileMap(abs, Content(i))))
              /\ failures' = failures
  /\ UNCHANGED <<parent, kind, base, ext, fsPath>>
  /\ UNCHANGED <<gitVars, raceVars, rerunVars, anyVars, ensureVars>>

\* the callback of fs.readdir(abs), utils.ts:169-176: readRecursively is
\* called on every entry, each call issuing its stat
TreeReaddirDone(i, fault) ==
  /\ treePc[i] = "readdir"
  /\ LET abs == Resolve(fsPath[i])
         e == [op |-> "readdir", node |-> i, code |-> "EIO"]
     IN  IF fault
         THEN /\ Finish(i, Failed(e))
              /\ failures' = Append(failures, e)
              /\ UNCHANGED fsPath
         ELSE /\ failures' = failures
              /\ fsPath' = [j \in Nodes |->
                              IF j \in Children(i) THEN Join(abs, base[j])
                              ELSE fsPath[j]]
              /\ IF Children(i) = {}
                 THEN Finish(i, Resolved(AssignAll(<<>>)))
                 ELSE /\ treePc' = [j \in Nodes |->
                                      IF j \in Children(i) THEN "stat"
                                      ELSE IF j = i THEN "join" ELSE treePc[j]]
                      /\ UNCHANGED promise
  /\ UNCHANGED <<parent, kind, base, ext>>
  /\ UNCHANGED <<gitVars, raceVars, rerunVars, anyVars, ensureVars>>

(***************************************************************************)
(* Initial states and specifications.                                      *)
(***************************************************************************)
\* the filesystems detectGit is started on: a start directory at most
\* MaxDepth below "/", at most MaxMarkers .git entries on its path
MarkerSets(n) == { S \in SUBSET (0..n) : Cardinality(S) <= MaxMarkers }

MarkerMaps(n) ==
  UNION { { [k \in 0..n |-> IF k \in S THEN f[k] ELSE "none"] :
              f \in [S -> MarkerKinds \ {"none"}] } : S \in MarkerSets(n) }

InitGit ==
  /\ \E n \in 0..MaxDepth :
       /\ startDir = ChainDir(n)
       /\ marker \in MarkerMaps(n)
  /\ branchName \in Branches
  /\ gitPc = "call"
  /\ directory = <<>>
  /\ iter = 0
  /\ dir = <<>>
  /\ branch = <<>>
  /\ gitResult = NoResult
  /\ callbackCount = 0
  /\ probes = <<>>
  /\ reads = <<>>

\* detectGit is not in use
GitIdle ==
  /\ startDir = <<>>
  /\ marker = [k \in {0} |-> "none"]
  /\ branchName = <<"m">>
  /\ gitPc = "idle"
  /\ directory = <<>>
  /\ iter = 0
  /\ dir = <<>>
  /\ branch = <<>>
  /\ gitResult = NoResult
  /\ callbackCount = 0
  /\ probes = <<>>
  /\ reads = <<>>

\* The state when raceSuccess(promises) returns (utils.ts:75-83): p.then
\* was called on each attempt in input order, which queues the reaction of
\* every attempt that is settled already; Promise.all of no promise at all
\* is fulfilled on the spot with the empty array.
InitRace ==
  /\ \E n \in 0..MaxAttempts :
       /\ plan \in [1..n -> BOOLEAN]
       /\ settleOrder \in Orders(1..n)
       /\ preSettled = Range(settleOrder)
       /\ attempts = [i \in 1..n |-> IF i \in Range(settleOrder)
                                      THEN SettledAttempt(i) ELSE Pending]
       /\ inverted = [i \in 1..n |-> Pending]
       /\ allValues = [i \in 1..n |-> Hole]
       /\ remaining = n
       /\ allPromise = PromiseAllOf(n)
       /\ microtasks =
            IF PromiseAllOf(n).state # "pending" THEN <<Job("outer", 0, "", <<>>)>>
            ELSE [k \in 1..Cardinality(Range(settleOrder)) |->
                    Job("swap", Sorted(Range(settleOrder))[k], "", <<>>)]
  /\ raceResult = Pending

\* raceSuccess is not in use
RaceIdle ==
  /\ plan = <<>>
  /\ preSettled = {}
  /\ attempts = <<>>
  /\ settleOrder = <<>>
  /\ inverted = <<>>
  /\ allValues = <<>>
  /\ remaining = 0
  /\ allPromise = Pending
  /\ raceResult = Pending
  /\ microtasks = <<>>

\* readRecursively is not in use
TreeIdle ==
  /\ parent = <<>>
  /\ kind = <<>>
  /\ base = <<>>
  /\ ext = <<>>
  /\ fsPath = <<>>
  /\ treePc = <<>>
  /\ promise = <<>>
  /\ failures = <<>>

\* readRecursively has not been run a second time
FirstRun ==
  /\ run = 1
  /\ previous = TreePending

\* readAnyFile is not in use
AnyIdle ==
  /\ filePaths = <<>>
  /\ present = {}
  /\ fileReads = <<>>

\* ensureDirectory is not in use
EnsureIdle ==
  /\ exists = {RootDir}
  /\ regular = {}
  /\ targets = <<>>
  /\ ensurePc = <<>>
  /\ dirPath = <<>>
  /\ ensureErr = <<>>
  /\ mkdirs = <<>>
  /\ statOk = <<>>
  /\ faulted = FALSE

NodeKinds == {"file", "dir", "other", "dangling"}

\* the extensions of the files, and the filters
FileExts == { <<>>, <<".", "t", "x", "t">>, <<".", "t", "x", "t", "x">> }
Filters == { <<>>, <<"t", "x", "t">> }

\* the first character of the name of node i
Stem(i) == <<"a", "b", "c", "d", "e", "f">>[i]

\* the trees of n nodes: every node but the first lies in a directory
\* among the nodes before it
Shapes(n) ==
  { f \in [1..n -> 0..(n - 1)] : \A i \in 1..n : IF i = 1 THEN f[i] = 0
                                                 ELSE f[i] \in 1..(i - 1) }

\* The state when readRecursively(fsPath, ext) on node 1 returns: its stat
\* is issued (utils.ts:156-160).
InitTree ==
  /\ \E n \in 1..MaxNodes :
       /\ parent \in Shapes(n)
       /\ kind \in { k \in [1..n -> NodeKinds] :
                       \A i \in 2..n : k[parent[i]] = "dir" }
       /\ \E x \in { x \in [1..n -> FileExts] :
                       \A i \in 1..n : kind[i] # "file" => x[i] = <<>> } :
            base = [i \in 1..n |-> <<Stem(i)>> \o x[i]]
       /\ \E rel \in BOOLEAN :
            fsPath = [i \in 1..n |->
                        IF i > 1 THEN NoPath
                        ELSE IF rel THEN RelativePath(<<base[1]>>)
                        ELSE AbsolutePath(Append(Cwd, base[1]))]
       /\ treePc = [i \in 1..n |-> IF i = 1 THEN "stat" ELSE "idle"]
       /\ promise = [i \in 1..n |-> TreePending]
  /\ ext \in Filters
  /\ failures = <<>>

NextGit == CallDetectGit \/ StatDone \/ ReadHeadDone \/ ReadRefDone

\* detectGit on its own
GitInit == InitGit /\ RaceIdle /\ TreeIdle /\ FirstRun /\ AnyIdle /\ EnsureIdle

SpecGit == GitInit /\ [][NextGit]_vars

\* detectGit when every filesystem operation it issues completes
SpecGitFair == GitInit /\ [][NextGit]_vars /\ WF_vars(NextGit)

NextRace ==
  \/ \E i \in DOMAIN attempts : Settle(i)
  \/ RunSwap
  \/ RunThenable
  \/ RunAdopt
  \/ RunElement
  \/ RunOuter

\* raceSuccess on its own
RaceInit == InitRace /\ GitIdle /\ TreeIdle /\ FirstRun /\ AnyIdle /\ EnsureIdle

SpecRace == RaceInit /\ [][NextRace]_vars

\* a promise job that is queued is run; an attempt need not ever settle
RunJobs == RunSwap \/ RunThenable \/ RunAdopt \/ RunElement \/ RunOuter

SpecRaceFair == RaceInit /\ [][NextRace]_vars /\ WF_vars(RunJobs)

\* The state when readAnyFile(filePaths) returns (utils.ts:105-112): one
\* read is out per path, every attempt is pending, and raceSuccess has
\* registered its reactions.
InitAny ==
  /\ \E n \in 0..MaxAttempts :
       /\ filePaths \in [1..n -> AnyFiles]
       /\ fileReads = [i \in 1..n |-> Pending]
       /\ attempts = [i \in 1..n |-> Pending]
       /\ inverted = [i \in 1..n |-> Pending]
       /\ allValues = [i \in 1..n |-> Hole]
       /\ remaining = n
       /\ allPromise = PromiseAllOf(n)
       /\ microtasks = IF PromiseAllOf(n).state # "pending"
                       THEN <<Job("outer", 0, "", <<>>)>> ELSE <<>>
  /\ present \in SUBSET AnyFiles
  /\ plan = [i \in DOMAIN filePaths |-> filePaths[i] \in present]
  /\ preSettled = {}
  /\ settleOrder = <<>>
  /\ raceResult = Pending

NextAny ==
  \/ \E i \in DOMAIN filePaths, ok \in BOOLEAN : ReadFileDone(i, ok)
  \/ RunMap
  \/ RunMapThenable
  \/ RunMapAdopt
  \/ RunSwap
  \/ RunThenable
  \/ RunAdopt
  \/ RunElement
  \/ RunOuter

\* readAnyFile on its own
AnyInit == InitAny /\ GitIdle /\ TreeIdle /\ FirstRun /\ EnsureIdle

SpecAny == AnyInit /\ [][NextAny]_vars

NextTree ==
  \/ \E i \in Nodes, fault \in BOOLEAN : TreeStatDone(i, fault)
  \/ \E i \in Nodes, fault \in BOOLEAN : TreeReadDone(i, fault)
  \/ \E i \in Nodes, fault \in BOOLEAN : TreeReaddirDone(i, fault)

\* readRecursively on its own
TreeInit == InitTree /\ FirstRun /\ GitIdle /\ RaceIdle /\ AnyIdle /\ EnsureIdle

SpecTree == TreeInit /\ [][NextTree]_vars

\* no callback of the filesystem is outstanding
TreeQuiet == \A i \in Nodes : treePc[i] \notin {"stat", "read", "readdir"}

\* readRecursively is called again with the same path and filter once the
\* first run has settled and gone quiet; the tree is as it was
TreeRerun ==
  /\ run = 1
  /\ promise[1].state # "pending"
  /\ TreeQuiet
  /\ run' = 2
  /\ previous' = promise[1]
  /\ fsPath' = [i \in Nodes |-> IF i = 1 THEN fsPath[1] ELSE NoPath]
  /\ treePc' = [i \in Nodes |-> IF i = 1 THEN "stat" ELSE "idle"]
  /\ promise' = [i \in Nodes |-> TreePending]
  /\ failures' = <<>>
  /\ UNCHANGED <<parent, kind, base, ext>>
  /\ UNCHANGED <<gitVars, raceVars, anyVars, ensureVars>>

NextTreeTwice ==
  \/ \E i \in Nodes, fault \in BOOLEAN : TreeStatDone(i, fault)
  \/ \E i \in Nodes, fault \in BOOLEAN : TreeReadDone(i, fault)
  \/ \E i \in Nodes, fault \in BOOLEAN : TreeReaddirDone(i, fault)
  \/ TreeRerun

\* readRecursively run twice in a row
SpecTreeTwice == TreeInit /\ [][NextTreeTwice]_vars

\* the filesystems ensureDirectory is started on: what exists lies in a
\* directory that exists, and a regular file holds nothing
Filesystems ==
  { E \in SUBSET EnsurePaths : RootDir \in E /\ \A q \in E : Dirname(q) \in E }

Leaves(E) == { q \in E \ {RootDir} : \A r \in E : r = q \/ q \notin Prefixes(r) }

\* The state when the calls of ensureDirectory have returned: each has its
\* first stat out (utils.ts:57-58).
InitEnsure ==
  /\ exists \in Filesystems
  /\ regular \in SUBSET Leaves(exists)
  /\ \E n \in 1..MaxCalls :
       /\ targets \in [1..n -> EnsurePaths]
       /\ ensurePc = [c \in 1..n |-> "stat"]
       /\ ensureErr = [c \in 1..n |-> ""]
       /\ mkdirs = [c \in 1..n |-> <<>>]
       /\ statOk = [c \in 1..n |-> {}]
  /\ dirPath = targets
  /\ faulted = FALSE

NextEnsure ==
  \/ \E c \in DOMAIN targets, fault \in BOOLEAN : EnsureStatDone(c, fault)
  \/ \E c \in DOMAIN targets, fault \in BOOLEAN : EnsureMkdirDone(c, fault)

\* ensureDirectory on its own
EnsureInit == InitEnsure /\ GitIdle /\ RaceIdle /\ TreeIdle /\ FirstRun /\ AnyIdle

SpecEnsure == EnsureInit /\ [][NextEnsure]_vars

(***************************************************************************)
(* detectGit: the claims.                                                  *)
(***************************************************************************)
StartDepth == Len(startDir)

\* the directory d levels above the start directory (d = 0: itself)
Ancestor(d) == ChainDir(StartDepth - d)

Nearest(S) == CHOOSE d \in S : \A e \in S : d <= e

GitSucceeded == gitPc = "done" /\ gitResult.err = ""

\* C1 as stated: with the nearest readable .git d <= 10 levels above the
\* start directory, d = 0 being the start directory itself, detectGit
\* succeeds with that directory as root; with it 11 or more levels above,
\* detectGit fails with "no git root detected".
C1_AsStated ==
  gitPc = "done" =>
    LET R == { d \in 0..StartDepth : MarkerOf(Ancestor(d)) = "good" }
    IN  R # {} =>
          IF Nearest(R) <= 10
          THEN gitResult.err = "" /\ gitResult.git.root = Ancestor(Nearest(R))
          ELSE gitResult.err = NotFound

\* C1 (amended): the start directory itself is never probed.  Let S be the
\* levels d >= 1 above the start directory whose .git stat succeeds.  With
\* the nearest of them d <= 10 levels up and both metadata reads succeeding
\* there, detectGit succeeds with that directory as root; with none, or the
\* nearest 11 or more levels up, it fails with "no git root detected".
C1_NearestAncestorWithinTen ==
  gitPc = "done" =>
    LET S == { d \in 1..StartDepth : StatGit(Ancestor(d)).ok }
    IN  /\ (S # {} /\ Nearest(S) <= 10 /\ MarkerOf(Ancestor(Nearest(S))) = "good")
             => /\ gitResult.err = ""
                /\ gitResult.git.root = Ancestor(Nearest(S))
        /\ (S = {} \/ Nearest(S) >= 11) => gitResult.err = NotFound

\* detectGit succeeded on the marker exactly 10 levels above the start
C1_Witness ==
  /\ GitSucceeded
  /\ StartDepth - Len(gitResult.git.root) = 10
  /\ Len(probes) = 10

(***************************************************************************)
(* raceSuccess: the claims.                                                *)
(***************************************************************************)
NumAttempts == Len(plan)

AllSettled == \A i \in 1..NumAttempts : attempts[i].state # "pending"

\* every attempt is settled and every promise job has run
RaceQuiet == AllSettled /\ microtasks = <<>>

\* the failure values of all attempts, in input order
AllFailures == [i \in 1..NumAttempts |-> ErrVal(i)]

\* C2: with at least one attempt that fulfils, raceSuccess never rejects,
\* what it fulfils with is the value of an attempt that has fulfilled, and
\* it has fulfilled once all attempts are settled and all jobs have run,
\* in whatever order the attempts settled.
C2_FulfilsWithAFulfilledValue ==
  (\E i \in 1..NumAttempts : plan[i]) =>
    /\ raceResult.state # "rejected"
    /\ raceResult.state = "fulfilled" =>
         \E i \in 1..NumAttempts :
           plan[i] /\ attempts[i] = Fulfilled(OkVal(i)) /\ raceResult.value = OkVal(i)
    /\ RaceQuiet => raceResult.state = "fulfilled"

\* [fail, succeed, fail] settled last to first, and raceSuccess fulfilled
C2_Witness ==
  /\ NumAttempts = 3
  /\ plan = <<FALSE, TRUE, FALSE>>
  /\ preSettled = {}
  /\ settleOrder = <<3, 2, 1>>
  /\ raceResult = Fulfilled(OkVal(2))

\* C3: when every attempt rejects, raceSuccess never fulfils, and once all
\* attempts are settled and all jobs have run it has rejected with the
\* sequence holding attempt i's failure value at index i, whatever the
\* order in which the attempts settled.
C3_AllFailedInInputOrder ==
  (\A i \in 1..NumAttempts : ~plan[i]) =>
    /\ raceResult.state # "fulfilled"
    /\ raceResult.state = "rejected" => raceResult.value = AllFailures
    /\ RaceQuiet => raceResult.state = "rejected"

\* two failing attempts that settled in the reverse of the input order
C3_Witness ==
  /\ NumAttempts = 2
  /\ preSettled = {}
  /\ settleOrder = <<2, 1>>
  /\ raceResult = Rejected(<<ErrVal(1), ErrVal(2)>>)

\* the fulfilling attempts in the order in which they settled
FulfilledInOrder == SelectSeq(settleOrder, LAMBDA i : plan[i])

\* The order in which raceSuccess gets to see the attempts: those settled
\* before the call in input order, then the others as they settle.
ObservedOrder ==
  Sorted(preSettled) \o SelectSeq(settleOrder, LAMBDA i : i \notin preSettled)

ObservedFulfilled == SelectSeq(ObservedOrder, LAMBDA i : plan[i])

\* what raceSuccess fulfils with is the value of the attempt that fulfilled
\* first in completion order
C4_FirstCompleted ==
  raceResult.state = "fulfilled" =>
    /\ FulfilledInOrder # <<>>
    /\ raceResult.value = OkVal(Head(FulfilledInOrder))

\* no step changes a settled outcome
C4_Stable == raceResult.state # "pending" => raceResult' = raceResult

\* C4 as stated: raceSuccess fulfils with the value of the attempt that
\* fulfilled first in completion order, and once it has settled no later
\* settlement of an attempt changes its outcome.
C4_AsStated == [](C4_FirstCompleted) /\ [][C4_Stable]_vars

\* what raceSuccess fulfils with is the value of the first attempt, in the
\* order it observes them, that fulfils
C4_FirstObserved ==
  raceResult.state = "fulfilled" =>
    /\ ObservedFulfilled # <<>>
    /\ raceResult.value = OkVal(Head(ObservedFulfilled))

\* C4 (amended): raceSuccess fulfils with the value of the fulfilled
\* attempt it observes first: attempts already settled when raceSuccess is
\* called are observed in input order, ahead of the attempts that settle
\* later, which are observed in completion order.  Once raceSuccess has
\* settled, no later settlement of an attempt changes its outcome.
C4_FirstObservedAndFinal == [](C4_FirstObserved) /\ [][C4_Stable]_vars

\* two attempts fulfil after the call, the later one in input order first,
\* and a third settles after raceSuccess has
C4_Witness ==
  /\ NumAttempts = 3
  /\ preSettled = {}
  /\ plan[2] /\ plan[3]
  /\ settleOrder = <<3, 2, 1>>
  /\ raceResult = Fulfilled(OkVal(3))
  /\ RaceQuiet

\* C5: raceSuccess of no attempt never fulfils, and once its jobs have run
\* it has rejected with the empty sequence.
C5_EmptyRejectsWithEmpty ==
  NumAttempts = 0 =>
    /\ raceResult.state # "fulfilled"
    /\ microtasks = <<>> => raceResult = Rejected(<<>>)

C5_Witness == NumAttempts = 0 /\ raceResult = Rejected(<<>>)

\* C6: whenever raceSuccess (or the Promise.all under it) has reported
\* failure, every attempt has rejected and the rejection carries the
\* failure value of every attempt.
C6_NeverPartial ==
  /\ raceResult.state = "rejected" =>
       /\ \A i \in 1..NumAttempts : attempts[i] = Rejected(ErrVal(i))
       /\ raceResult.value = AllFailures
  /\ allPromise.state = "fulfilled" =>
       /\ \A i \in 1..NumAttempts : attempts[i] = Rejected(ErrVal(i))
       /\ allPromise.value = AllFailures

\* three failing attempts, the first settled before the call
C6_Witness ==
  /\ NumAttempts = 3
  /\ preSettled = {1}
  /\ raceResult.state = "rejected"
  /\ Len(raceResult.value) = 3

(***************************************************************************)
(* readRecursively: the claims.                                            *)
(***************************************************************************)
\* the promise readRecursively returned for the given path
RootPromise == promise[1]

AllVisited == \A i \in Nodes : treePc[i] = "done"

NodeAt(path) == CHOOSE i \in Nodes : Location(i) = path

\* the regular files whose extension passes the test of utils.ts:163
MatchingFiles ==
  { i \in Nodes : kind[i] = "file" /\ Includes(Extname(Location(i)), ext) }

ExpectedMap ==
  [k \in { Location(i) : i \in MatchingFiles } |-> Content(NodeAt(k))]

\* the mapping of a fulfilled directory is the disjoint union of the
\* mappings of its entries
DisjointUnion(i) ==
  /\ DOMAIN promise[i].map = UNION { DOMAIN promise[c].map : c \in Children(i) }
  /\ \A c \in Children(i) : \A k \in DOMAIN promise[c].map :
       promise[i].map[k] = promise[c].map[k]
  /\ \A c, d \in Children(i) :
       c # d => (DOMAIN promise[c].map) \cap (DOMAIN promise[d].map) = {}

C8_AsStated ==
  RootPromise.state = "fulfilled" =>
    \A i \in Nodes :
      kind[i] = "file" =>
        ((Location(i) \in DOMAIN RootPromise.map)
           <=> EndsWith(Extname(Location(i)), ext))

\* C9: from the first failure of a stat, readdir or read on, readRecursively
\* is rejected with that failure, whatever completes later; it never
\* fulfils once an operation has failed.
C9_FirstFailureWins ==
  /\ failures # <<>> => RootPromise = Failed(Head(failures))
  /\ RootPromise.state = "fulfilled" => failures = <<>>

\* an entry failed, and the read of its sibling failed after it
C9_Witness ==
  /\ Len(failures) = 2
  /\ failures[1].node = 3
  /\ failures[2].node = 2
  /\ failures[2].op = "read"
  /\ RootPromise = Failed(failures[1])

\* no I/O error was injected into an operation on node i
NoFaultAt(i) ==
  \A k \in 1..Len(failures) : failures[k].node = i => failures[k].code # "EIO"

\* C10 as stated: the visit of a path that is neither a regular file nor a
\* directory, a symlink whose target is missing included, yields the empty
\* mapping.
C10_AsStated ==
  \A i \in Nodes :
    (kind[i] \in {"other", "dangling"} /\ treePc[i] = "done" /\ NoFaultAt(i))
      => promise[i] = Resolved(EmptyMap)

\* C10 (amended): the visit of a path whose stat succeeds and that is
\* neither a regular file nor a directory (a device, a socket) yields the
\* empty mapping and adds no failure; a symlink whose target is missing
\* makes stat fail, and the visit and the collection are rejected with
\* that failure of stat.
C10_OtherIsEmptyDanglingFails ==
  \A i \in Nodes :
    treePc[i] = "done" =>
      /\ (kind[i] = "other" /\ NoFaultAt(i)) =>
           /\ promise[i] = Resolved(EmptyMap)
           /\ \A k \in 1..Len(failures) : failures[k].node # i
      /\ kind[i] = "dangling" =>
           /\ promise[i].state = "rejected"
           /\ promise[i].err.op = "stat"
           /\ RootPromise.state = "rejected"

\* a directory holding a device and a file: the collection succeeds
C10_Witness ==
  /\ Cardinality(Nodes) = 3
  /\ kind[2] = "other"
  /\ kind[3] = "file"
  /\ Children(1) = {2, 3}
  /\ RootPromise.state = "fulfilled"
  /\ DOMAIN RootPromise.map = {Location(3)}

(***************************************************************************)
(* detectGit and readGitMeta: further claims.                              *)
(***************************************************************************)
\* the directory probed last
LastProbe == probes[Len(probes)]

\* the levels above the start directory whose .git stat succeeds
StatOkLevels == { d \in 1..StartDepth : StatGit(Ancestor(d)).ok }

\* readGitMeta has been called
MetaStarted == reads # <<>>

\* C12: with HEAD holding "ref: refs/heads/" + b + "\n" and the ref file of
\* b readable, readGitMeta calls back with the root, the branch b and the
\* whole content of the ref file, its newline kept; the ref file is read
\* after the read of HEAD has completed, and it is the ref file of b.
C12_MetaOfBranch ==
  /\ (gitPc = "done" /\ MetaStarted /\ MarkerOf(dir) = "good") =>
       gitResult = [err |-> "",
                    git |-> [root |-> dir, head |-> RefContent, branch |-> branchName]]
  /\ gitPc = "readHead" => reads = << <<dir, "HEAD">> >>
  /\ Len(reads) >= 2 =>
       /\ reads = << <<dir, "HEAD">>, <<dir, "ref", branchName>> >>
       /\ gitPc \in {"readRef", "done"}

\* readGitMeta succeeded on a repository on branch dev
C12_Witness ==
  /\ GitSucceeded
  /\ gitResult.git.branch = <<"d", "e", "v">>
  /\ gitResult.git.head[Len(gitResult.git.head)] = "\n"
  /\ Len(reads) = 2

\* C13: started at "/", detectGit fails with "no git root detected" and
\* probes nothing; no directory is probed twice, "/" is the last directory
\* a search probes, and a search whose probe of "/" fails ends with "no git
\* root detected".
C13_NoProbeBeyondRoot ==
  /\ (startDir = RootDir /\ gitPc # "call") =>
       /\ gitPc = "done"
       /\ gitResult.err = NotFound
       /\ probes = <<>>
  /\ \A j, k \in 1..Len(probes) : j # k => probes[j] # probes[k]
  /\ \A k \in 1..Len(probes) : probes[k] = RootDir => k = Len(probes)
  /\ (probes # <<>> /\ LastProbe = RootDir /\ ~StatGit(RootDir).ok /\ gitPc # "stat")
       => (gitPc = "done" /\ gitResult.err = NotFound)

\* a search from three levels below "/" that ended at "/" without a marker
C13_Witness ==
  /\ gitPc = "done"
  /\ gitResult.err = NotFound
  /\ Len(probes) = 3
  /\ LastProbe = RootDir

\* what readGitMeta calls back with on the repository in dir
MetaOutcome ==
  CASE MarkerOf(dir) = "nohead" -> [err |-> ReadHead(dir).err, git |-> NoGit]
    [] MarkerOf(dir) = "noref"  -> [err |-> ReadRef(dir, branch).err, git |-> NoGit]
    [] OTHER -> [err |-> "", git |-> [root |-> dir, head |-> RefContent,
                                      branch |-> branchName]]

C16_HandOff ==
  /\ (probes # <<>> /\ StatGit(LastProbe).ok /\ gitPc # "stat") => MetaStarted
  /\ MetaStarted =>
       /\ dir = LastProbe
       /\ StatGit(dir).ok
       /\ \A k \in 1..Len(reads) : reads[k][1] = dir
       /\ Len(reads) <= 2
       /\ reads[1][2] = "HEAD"
       /\ Len(reads) = 2 => (reads[2][2] = "ref" /\ ReadHead(dir).ok)
       /\ gitPc = "done" =>
            /\ gitResult = MetaOutcome
            /\ Len(reads) = IF MarkerOf(dir) = "nohead" THEN 1 ELSE 2

\* once readGitMeta is called nothing is probed, and a result stays
C16_Final ==
  /\ MetaStarted => probes' = probes
  /\ gitPc = "done" => (gitResult' = gitResult /\ reads' = reads)

\* C16: when the stat of a marker succeeds, readGitMeta is called on that
\* directory and decides the outcome: a failing read of HEAD or of the ref
\* file passes its own error to the callback, each file is read at most
\* once, and no further directory is probed.
C16_MetaOutcomeIsFinal == [](C16_HandOff) /\ [][C16_Final]_vars

\* the ref read failed below a good repository, which is never probed
C16_Witness ==
  /\ gitPc = "done"
  /\ gitResult.err = "ENOENT ref"
  /\ Len(reads) = 2
  /\ \E d \in StatOkLevels : d > Len(probes) /\ MarkerOf(Ancestor(d)) = "good"

C17_Sequential ==
  /\ \A k \in 1..Len(probes) : probes[k] = Ancestor(k)
  /\ \A k \in 1..(Len(probes) - 1) : ~StatGit(probes[k]).ok
  /\ gitPc = "stat" => dir = LastProbe
  /\ MetaStarted => (StatGit(LastProbe).ok /\ Nearest(StatOkLevels) = Len(probes))
  /\ GitSucceeded => gitResult.git.root = Ancestor(Nearest(StatOkLevels))

\* a probe is issued by the call, or by the callback of the one stat that
\* was outstanding and has failed; it is then the one stat outstanding
C17_OneAtATime ==
  probes' # probes =>
    /\ gitPc \in {"call", "stat"}
    /\ gitPc = "stat" => ~StatGit(dir).ok
    /\ Len(probes') = Len(probes) + 1
    /\ gitPc' = "stat"

\* C17: detectGit probes the ancestors one at a time, nearest first: the
\* k-th probe is of the ancestor k levels up and is issued only when the
\* stat of every nearer ancestor has failed, for whatever reason; after a
\* stat that succeeds nothing is probed, so the root reported is the
\* nearest ancestor whose .git stat succeeds.
C17_NearestFirst == [](C17_Sequential) /\ [][C17_OneAtATime]_vars

\* found above an ancestor whose .git cannot be stat'ed (EACCES)
C17_Witness ==
  /\ GitSucceeded
  /\ Len(probes) >= 3
  /\ \E k \in 1..(Len(probes) - 1) : MarkerOf(probes[k]) = "denied"

C19_Bounded ==
  /\ Len(probes) <= 10
  /\ callbackCount <= 1
  /\ (gitPc = "done") <=> (callbackCount = 1)

\* C19: when every filesystem operation completes detectGit ends: it
\* issues at most 10 stat probes and calls its callback exactly once.
C19_Terminates == <>(gitPc = "done") /\ [](C19_Bounded)

\* ten probes, none found, one callback
C19_Witness ==
  /\ gitPc = "done"
  /\ Len(probes) = 10
  /\ callbackCount = 1
  /\ gitResult.err = NotFound

(***************************************************************************)
(* raceSuccess: further claims.                                            *)
(***************************************************************************)
SomeFulfilled == \E i \in 1..NumAttempts : attempts[i].state = "fulfilled"

\* with an attempt fulfilled and every queued job run, raceSuccess has
\* fulfilled, whatever the other attempts are doing
C18_NoWaiting == (SomeFulfilled /\ microtasks = <<>>) => raceResult.state = "fulfilled"

\* C18: once an attempt has fulfilled, raceSuccess fulfils: as soon as the
\* promise jobs that follow have run, and also when other attempts never
\* settle.
C18_FulfilsWithoutWaiting ==
  [](C18_NoWaiting) /\ (SomeFulfilled ~> raceResult.state = "fulfilled")

\* raceSuccess has fulfilled while two attempts are still pending
C18_Witness ==
  /\ NumAttempts = 3
  /\ raceResult.state = "fulfilled"
  /\ Cardinality({ i \in 1..NumAttempts : attempts[i].state = "pending" }) = 2
  /\ microtasks = <<>>

(***************************************************************************)
(* readRecursively: further claims.                                        *)
(***************************************************************************)
\* C11: when both runs of readRecursively on the same path, filter and
\* tree fulfil, they fulfil with the same mapping (same keys, same values),
\* whatever the order in which the callbacks of either run came.
C11_SameMappingTwice ==
  (run = 2 /\ previous.state = "fulfilled" /\ RootPromise.state = "fulfilled")
    => RootPromise.map = previous.map

\* both runs fulfilled on a directory given relative, with two matching
\* files in it
C11_Witness ==
  /\ run = 2
  /\ previous.state = "fulfilled"
  /\ RootPromise.state = "fulfilled"
  /\ ~fsPath[1].abs
  /\ Cardinality(DOMAIN RootPromise.map) = 2

(***************************************************************************)
(* readAnyFile: the claims.                                                *)
(***************************************************************************)
NumPaths == Len(filePaths)

\* C14: readAnyFile fulfils only with {file, data} where file is a given
\* path whose read succeeded and data the content of that file; it rejects
\* only when the read of every path failed, with the errors of the reads,
\* one per path in the order of the paths.
C14_AGivenFileThatWasRead ==
  /\ raceResult.state = "fulfilled" =>
       \E i \in 1..NumPaths :
         /\ fileReads[i].state = "fulfilled"
         /\ raceResult.value = [file |-> filePaths[i], data |-> FileData(filePaths[i])]
  /\ raceResult.state = "rejected" =>
       /\ \A i \in 1..NumPaths : fileReads[i].state = "rejected"
       /\ raceResult.value = [i \in 1..NumPaths |-> ReadError(filePaths[i])]

\* the first path could not be read, and readAnyFile fulfilled with the
\* second, a different file
C14_Witness ==
  /\ NumPaths = 2
  /\ filePaths[1] # filePaths[2]
  /\ fileReads[1].state = "rejected"
  /\ raceResult.state = "fulfilled"
  /\ raceResult.value.file = filePaths[2]

(***************************************************************************)
(* ensureDirectory: the claims.                                            *)
(***************************************************************************)
NumCalls == Len(targets)

EnsureDone(c) == ensurePc[c] = "done"
EnsureOk(c) == EnsureDone(c) /\ ensureErr[c] = ""

\* the paths call c issued fs.mkdir for before its k-th mkdir
MadeBefore(c, k) == { mkdirs[c][j] : j \in 1..(k - 1) }

\* dirPath and every directory above it exist, those above as directories
C15_AllExist == EnsureOk(1) => (Prefixes(targets[1]) \subseteq exists
                                  /\ Prefixes(Dirname(targets[1])) \cap regular = {})

\* fs.mkdir of a directory is out only when the directory above it exists,
\* having been found by stat or made by an earlier mkdir of the call
C15_ParentFirst ==
  /\ ensurePc[1] = "mkdir" => Dirname(dirPath[1]) \in exists
  /\ \A k \in 1..Len(mkdirs[1]) :
       Dirname(mkdirs[1][k]) \in statOk[1] \cup MadeBefore(1, k)

\* no fs.mkdir is issued for a path whose fs.stat succeeded
C15_NoMkdirAfterStat == \A k \in 1..Len(mkdirs[1]) : mkdirs[1][k] \notin statOk[1]

\* C15: a single call of ensureDirectory that calls back without error
\* leaves dirPath and every directory above it in existence; it makes the
\* missing directories parent first, and none whose stat succeeded.
C15_EnsuresParentFirst ==
  NumCalls = 1 => (C15_AllExist /\ C15_ParentFirst /\ C15_NoMkdirAfterStat)

\* a single call made two directories below "/" and called back without
\* error
C15_Witness ==
  /\ NumCalls = 1
  /\ EnsureOk(1)
  /\ Len(mkdirs[1]) = 2
  /\ statOk[1] = {RootDir}
  /\ ~faulted

\* a directory of both paths that some call issued fs.mkdir for: without
\* outside failures a call makes only what its stat found missing
SharedMissing ==
  \E q \in Prefixes(targets[1]) \cap Prefixes(targets[2]) :
    \E c \in 1..2 : \E k \in 1..Len(mkdirs[c]) : mkdirs[c][k] = q

\* C20, as stated: two calls in flight at once whose paths share missing
\* directories both call back without error, and all directories of both
\* paths exist, in whatever order their stat and mkdir callbacks come (no
\* operation failing for an outside reason, no regular file on the paths).
C20_AsStated ==
  ( /\ NumCalls = 2
    /\ EnsureDone(1) /\ EnsureDone(2)
    /\ SharedMissing
    /\ ~faulted
    /\ (Prefixes(targets[1]) \cup Prefixes(targets[2])) \cap regular = {} )
  => ( /\ EnsureOk(1) /\ EnsureOk(2)
       /\ Prefixes(targets[1]) \cup Prefixes(targets[2]) \subseteq exists )

=============================================================================
